---- MODULE Spec2Model ----
(***************************************************************************)
(* Khathabook.py: a multi-user expense tracker.  One SQLite connection and *)
(* one cursor are module globals (conn, c); five functions work on them    *)
(* (hash_password, register_user, login_user, get_transactions,            *)
(* add_transactions); the page script below them handles one button click  *)
(* per run and then renders the logged-in user's ledger.                   *)
(*                                                                         *)
(* Representation.  A table is the sequence of its rows in rowid order.    *)
(* Python's None is NULL in a cell and the empty sequence where a whole    *)
(* value is optional (fetchone's result, a missing session key), a present *)
(* value being the one-element sequence.  Amounts are whole numbers of     *)
(* rupees: every amount and sum the model reaches is an integer far below  *)
(* 2^53, where the REAL column's double arithmetic is exact.               *)
(***************************************************************************)
EXTENDS Integers, Sequences, FiniteSets, TLC

\* ------------------------------------------------------------ bounds
\* The most rows the transactions table holds in the model.
MaxTxns == 2
\* The most rows of the edit buffer when Save is clicked.
MaxBatch == 2
\* The last calendar day the model's clock reaches.
MaxDay == 2

\* ------------------------------------------------------------ inputs
Sessions == {"s1", "s2"}
Usernames == {"alice", "bob"}
Passwords == {"pw1", "pw2"}

NULL == "NULL"
None == << >>
Some(v) == << v >>

VARIABLES
    users,          \* table users, as seen on conn
    transactions,   \* table transactions, as seen on conn
    committed,      \* how many rows of transactions are committed (durable)
    cursor,         \* rows the shared cursor c still has to fetch
    session,        \* st.session_state of every browser session
    clock,          \* datetime.now()
    pc,             \* where each session's script thread is inside login_user
    call,           \* the arguments of the login_user call a thread is in
    last,           \* what the most recent script run did and rendered
    firstReg,       \* history: username -> the registration that created it
    ledger,         \* history: user id -> rows inserted on that user's behalf
    failedIds       \* history: ids of rows inserted by a batch that raised

vars == <<users, transactions, committed, cursor, session, clock, pc, call,
          last, firstReg, ledger, failedIds>>

\* ------------------------------------------------------------ helpers
RECURSIVE SumAmount(_)
SumAmount(rows) ==
    IF rows = << >> THEN 0 ELSE Head(rows).amount + SumAmount(Tail(rows))

Range(f) == {f[i] : i \in DOMAIN f}

\* Sequences over S of length at most n.
SeqUpTo(S, n) == UNION {[1..k -> S] : k \in 0..n}

\* ------------------------------------------------------------ functions
\* hashlib.sha256(password.encode()).hexdigest(): the digests of the model's
\* passwords, which differ as every pair of known SHA-256 digests does.
hash_password(password) ==
    CASE password = "pw1" ->
           "c592df4a86933b92addc9842402ddf198c638ea9be58916ee6e3734e1e3152f8"
      [] password = "pw2" ->
           "93915a0a4bf8f634cb1856494dd4304472ad46b9827f541f76b6761c49cc55b0"
      [] OTHER ->
           "e3b0c44298fc1c149afbf4c8996fb92427ae41e4649b934ca495991b7852b855"

\* id INTEGER PRIMARY KEY AUTOINCREMENT: one more than the largest id ever
\* used; no row is ever deleted and a failed INSERT uses none up.
NextId(table) == Len(table) + 1

\* username TEXT UNIQUE: the INSERT raises sqlite3.IntegrityError.
UniqueViolation(username) == \E i \in DOMAIN users : users[i].username = username

\* register_user's value: False when the INSERT raised IntegrityError.
register_ret(username) == ~UniqueViolation(username)

\* register_user as INSERT OR REPLACE would make it: a second registration of
\* a username overwrites the digest of its row.
register_user_Replace(username, password) ==
    /\ cursor' = << >>
    /\ committed' = Len(transactions)
    /\ users' =
         IF UniqueViolation(username)
         THEN [i \in DOMAIN users |->
                 IF users[i].username = username
                 THEN [users[i] EXCEPT !.password_hash = hash_password(password)]
                 ELSE users[i]]
         ELSE Append(users, [id |-> NextId(users),
                             username |-> username,
                             password_hash |-> hash_password(password)])

\* register_user: INSERT INTO users, then conn.commit(), which commits
\* everything pending on the shared connection.  c.execute leaves the shared
\* cursor without rows to fetch, whether the INSERT raised or not.
register_user(username, password) ==
    /\ cursor' = << >>
    /\ IF UniqueViolation(username)
       THEN UNCHANGED <<users, committed>>
       ELSE /\ users' = Append(users, [id |-> NextId(users),
                                       username |-> username,
                                       password_hash |-> hash_password(password)])
            /\ committed' = Len(transactions)

\* The SELECT without its password_hash condition.
SelectUser_AnyPassword(username, digest) ==
    SelectSeq(users, LAMBDA r : r.username = username)

\* c.execute("SELECT * FROM users WHERE username=? AND password_hash=?")
SelectUser(username, digest) ==
    SelectSeq(users, LAMBDA r : r.username = username /\ r.password_hash = digest)

\* c.fetchone(): the next row of the cursor, or None.
fetchone(cur) == IF cur = << >> THEN None ELSE Some(Head(cur))

\* What the cursor holds after fetchone.
AfterFetch(cur) == IF cur = << >> THEN << >> ELSE Tail(cur)

\* login_user run without interruption: execute, then fetchone.
login_user(username, password) ==
    fetchone(SelectUser(username, hash_password(password)))

\* The SELECT without its WHERE clause.
get_transactions_All(user_id) == transactions

\* SELECT * FROM transactions WHERE user_id=?, read through conn, which sees
\* its own uncommitted rows.
get_transactions(user_id) ==
    SelectSeq(transactions, LAMBDA r : r.user_id = user_id)

\* The rows add_transactions's loop inserts when its first n INSERTs run:
\* user_id and the six columns as given, no check of any of them.
InsertRows(table, user_id, df, n) ==
    table \o [i \in 1..n |->
                [id |-> Len(table) + i,
                 user_id |-> user_id,
                 date |-> df[i].Date,
                 category |-> df[i].Category,
                 description |-> df[i].Description,
                 type |-> df[i].Type,
                 amount |-> df[i].Amount]]

\* How many INSERTs of the loop run: all of them, or, when the raise-th one
\* raises (raise = 0: none does), those before it.
Executed(df, raise) == IF raise = 0 THEN Len(df) ELSE raise - 1

\* add_transactions: one INSERT per row, then one conn.commit().  An INSERT
\* that raises leaves the function at once: no commit, and no rollback of
\* the rows already inserted, which stay pending on the connection.
add_transactions(user_id, df, raise) ==
    /\ transactions' = InsertRows(transactions, user_id, df, Executed(df, raise))
    /\ committed' = IF raise = 0 THEN Len(transactions') ELSE committed
    /\ cursor' = << >>
    /\ UNCHANGED users

\* ------------------------------------------------------------ the page
categories == {"Food", "Travel", "Rent", "Shopping", "Salary", "Other"}

\* The row the editor starts with.
template_df == << [Category |-> "Food", Description |-> "", Type |-> "Expense",
                   Amount |-> 0] >>

\* datetime.now().strftime("%Y-%m-%d %H:%M"): the seconds are dropped.
strftime(now) == [day |-> now.day, minute |-> now.minute]

\* pd.to_datetime of the stored text: a timestamp at second 0 of its minute.
to_datetime(text) == [day |-> text.day, minute |-> text.minute, second |-> 0]

\* Timestamps in ascending order.
TsLess(a, b) ==
    \/ a.day < b.day
    \/ a.day = b.day /\ a.minute < b.minute
    \/ a.day = b.day /\ a.minute = b.minute /\ a.second < b.second

\* The keys of a groupby, which sorts them ascending.
RECURSIVE SortedKeys(_)
SortedKeys(S) ==
    IF S = {} THEN << >>
    ELSE LET m == CHOOSE x \in S : \A y \in S \ {x} : TsLess(x, y)
         IN  << m >> \o SortedKeys(S \ {m})

\* The save handler without its filter.
SaveFilter_None(edited_df) == edited_df

\* edited_df[edited_df["Description"] != ""]: None is not "", so a row whose
\* description cell was never filled in stays.
SaveFilter(edited_df) == SelectSeq(edited_df, LAMBDA r : r.Description # "")

\* edited_df["Date"] = ...: the one stamp on every row of the batch.
Stamp(df, now) ==
    [i \in DOMAIN df |->
        [Category |-> df[i].Category, Description |-> df[i].Description,
         Type |-> df[i].Type, Amount |-> df[i].Amount, Date |-> strftime(now)]]

OfType(df, t) == SelectSeq(df, LAMBDA r : r.type = t)

income(df) == SumAmount(OfType(df, "Income"))
expense(df) == SumAmount(OfType(df, "Expense"))
balance(df) == income(df) - expense(df)

\* df[["date","category","description","type","amount"]]
ShownColumns == <<"date", "category", "description", "type", "amount">>
table(df) ==
    [i \in DOMAIN df |-> <<df[i].date, df[i].category, df[i].description,
                           df[i].type, df[i].amount>>]

\* expense_df.groupby("category")["amount"].sum(): groupby leaves out the
\* rows whose key is null (dropna=True, its default).
grouped(df) ==
    LET expense_df == OfType(df, "Expense")
        keys == {r.category : r \in Range(expense_df)} \ {NULL}
    IN  [k \in keys |->
            SumAmount(SelectSeq(expense_df, LAMBDA r : r.category = k))]

\* df_sorted[type == "Expense"].groupby("date")["amount"].sum() with date the
\* parsed timestamp: one key per distinct timestamp, in ascending order.
daily_expense(df) ==
    LET expense_df == OfType(df, "Expense")
        keys == SortedKeys({to_datetime(r.date) : r \in Range(expense_df)})
    IN  [i \in DOMAIN keys |->
            [date |-> keys[i],
             amount |-> SumAmount(SelectSeq(expense_df,
                            LAMBDA r : to_datetime(r.date) = keys[i]))]]

\* An export of the five columns the page shows.
to_csv_Shown(df) ==
    [header |-> <<"date", "category", "description", "type", "amount">>,
     lines |-> [i \in DOMAIN df |->
                   <<df[i].date, df[i].category, df[i].description,
                     df[i].type, df[i].amount>>]]

\* df.to_csv(index=False): the header names every column of SELECT *, and
\* one line per row follows.
to_csv(df) ==
    [header |-> <<"id", "user_id", "date", "category", "description", "type",
                  "amount">>,
     lines |-> [i \in DOMAIN df |->
                   <<df[i].id, df[i].user_id, df[i].date, df[i].category,
                     df[i].description, df[i].type, df[i].amount>>]]

\* A run's output with nothing rendered below the sidebar.
Blank ==
    [op |-> "none", s |-> "none", msg |-> "none", user |-> None,
     page |-> "none", income |-> 0, expense |-> 0, balance |-> 0,
     table |-> << >>, grouped |-> << >>, daily_expense |-> << >>,
     download |-> None]

\* The main app below the save button: the summary, the charts and the
\* download button when the user has rows, else the "No transactions yet"
\* note; nothing when nobody is logged in.
Render(out, sess, df) ==
    IF ~sess.logged_in THEN out
    ELSE IF df = << >> THEN [out EXCEPT !.page = "info"]
    ELSE [out EXCEPT !.page = "summary",
                     !.income = income(df),
                     !.expense = expense(df),
                     !.balance = balance(df),
                     !.table = table(df),
                     !.grouped = grouped(df),
                     !.daily_expense = daily_expense(df),
                     !.download = Some(to_csv(df))]

\* ------------------------------------------------------------ state
Instants ==
    [day : 1..MaxDay, minute : 0..1, second : 0..1]

Later(a, b) ==
    \/ a.day < b.day
    \/ a.day = b.day /\ a.minute < b.minute
    \/ a.day = b.day /\ a.minute = b.minute /\ a.second < b.second

UserIds == 1..Cardinality(Usernames)

Init ==
    /\ users = << >>
    /\ transactions = << >>
    /\ committed = 0
    /\ cursor = << >>
    /\ session = [s \in Sessions |-> [logged_in |-> FALSE, user_id |-> None]]
    /\ clock = [day |-> 1, minute |-> 0, second |-> 0]
    /\ pc = [s \in Sessions |-> "idle"]
    /\ call = [s \in Sessions |-> None]
    /\ last = Blank
    /\ firstReg = [u \in Usernames |-> None]
    /\ ledger = [i \in UserIds |-> << >>]
    /\ failedIds = {}

\* The main app of a run of session s (below the save handler), rendered
\* from the session state and the table as the run leaves them.
MainApp(out, s) ==
    last' = Render(out, session'[s],
                   IF session'[s].logged_in
                   THEN (get_transactions(session[s].user_id[1]))'
                   ELSE << >>)

\* A run in which the Register button was clicked.
RegisterClick(s, username, password) ==
    /\ pc[s] = "idle"
    /\ register_user(username, password)
    /\ firstReg' =
         IF register_ret(username) /\ firstReg[username] = None
         THEN [firstReg EXCEPT ![username] =
                  Some([password |-> password, id |-> NextId(users)])]
         ELSE firstReg
    /\ UNCHANGED <<transactions, session, clock, pc, call, ledger, failedIds>>
    /\ MainApp([Blank EXCEPT !.op = "register", !.s = s,
                   !.msg = IF register_ret(username)
                           THEN "Account created! Please login."
                           ELSE "Username already exists."], s)

\* A Login handler whose else branch logs the session out.
LoginResult_Logout(s, user) ==
    /\ session' = IF user # None
                  THEN [session EXCEPT ![s] = [logged_in |-> TRUE,
                                               user_id |-> Some(user[1].id)]]
                  ELSE [session EXCEPT ![s].logged_in = FALSE]
    /\ MainApp([Blank EXCEPT !.op = "login", !.s = s, !.user = user,
                   !.msg = IF user # None THEN "Welcome"
                           ELSE "Invalid username or password"], s)

\* if user: ... else: ... of the Login handler, and the main app after it.
LoginResult(s, user) ==
    /\ session' = IF user # None
                  THEN [session EXCEPT ![s] = [logged_in |-> TRUE,
                                               user_id |-> Some(user[1].id)]]
                  ELSE session
    /\ MainApp([Blank EXCEPT !.op = "login", !.s = s, !.user = user,
                   !.msg = IF user # None THEN "Welcome"
                           ELSE "Invalid username or password"], s)

\* A run in which the Login button was clicked, login_user running without
\* interruption.
LoginClick(s, username, password) ==
    /\ pc[s] = "idle"
    /\ cursor' = AfterFetch(SelectUser(username, hash_password(password)))
    /\ UNCHANGED <<users, transactions, committed, clock, pc, call, firstReg,
                   ledger, failedIds>>
    /\ LoginResult(s, login_user(username, password))

\* A run in which Save Transactions was clicked; the button is on the page
\* only when the session is logged in.  raise > 0: that INSERT of the batch
\* raises, and the run ends with the exception.
SaveClick(s, edited_df, raise) ==
    /\ pc[s] = "idle"
    /\ session[s].logged_in
    /\ LET user_id == session[s].user_id[1]
           kept == SaveFilter(edited_df)
           df == Stamp(kept, clock)
           n == Executed(df, raise)
       IN  IF kept # << >>
           THEN /\ raise \in 0..Len(df)
                /\ Len(transactions) + Len(df) <= MaxTxns
                /\ add_transactions(user_id, df, raise)
                /\ ledger' = [ledger EXCEPT ![user_id] = @ \o SubSeq(df, 1, n)]
                /\ failedIds' =
                     IF raise = 0 THEN failedIds
                     ELSE failedIds \cup
                          {Len(transactions) + i : i \in 1..n}
                /\ UNCHANGED <<session, clock, pc, call, firstReg>>
                /\ IF raise = 0
                   THEN MainApp([Blank EXCEPT !.op = "save", !.s = s,
                                    !.msg = "transaction(s) saved!"], s)
                   ELSE last' = [Blank EXCEPT !.op = "save", !.s = s,
                                    !.msg = "exception"]
           ELSE /\ raise = 0
                /\ UNCHANGED <<users, transactions, committed, cursor, session,
                               clock, pc, call, firstReg, ledger, failedIds>>
                /\ MainApp([Blank EXCEPT !.op = "save", !.s = s], s)

\* A run with no button clicked (a widget changed, the page was reloaded).
Rerun(s) ==
    /\ pc[s] = "idle"
    /\ UNCHANGED <<users, transactions, committed, cursor, session, clock, pc,
                   call, firstReg, ledger, failedIds>>
    /\ MainApp([Blank EXCEPT !.op = "rerun", !.s = s], s)

\* Time passes.
Tick ==
    /\ \E t \in Instants : Later(clock, t) /\ clock' = t
    /\ UNCHANGED <<users, transactions, committed, cursor, session, pc, call,
                   last, firstReg, ledger, failedIds>>

\* ---- login_user on the shared cursor, one cursor call at a time
\* c.execute(SELECT ...) of a login_user call in session s's thread.
LoginExecute(s, username, password) ==
    /\ pc[s] = "idle"
    /\ cursor' = SelectUser(username, hash_password(password))
    /\ pc' = [pc EXCEPT ![s] = "fetch"]
    /\ call' = [call EXCEPT ![s] =
                  Some([username |-> username, password |-> password,
                        registered |-> login_user(username, password) # None])]
    /\ UNCHANGED <<users, transactions, committed, session, clock, last,
                   firstReg, ledger, failedIds>>

\* return c.fetchone() of that call, and the rest of the run.
LoginFetchone(s) ==
    /\ pc[s] = "fetch"
    /\ cursor' = AfterFetch(cursor)
    /\ pc' = [pc EXCEPT ![s] = "idle"]
    /\ UNCHANGED <<users, transactions, committed, clock, call, firstReg,
                   ledger, failedIds>>
    /\ LoginResult(s, fetchone(cursor))

\* ------------------------------------------------------------ edit buffers
\* What a cell of the editor can hold: a Category of the select box or
\* nothing (a row the user added and did not fill in), a Description typed,
\* left empty or never touched.
AuthRows ==
    { [Category |-> "Food", Description |-> d, Type |-> "Expense", Amount |-> 5]
        : d \in {"", "lunch", NULL} }

LedgerRows ==
    { template_df[1],
      [Category |-> "Food", Description |-> "lunch", Type |-> "Expense",
       Amount |-> 150],
      [Category |-> "Salary", Description |-> "pay", Type |-> "Income",
       Amount |-> 5000],
      [Category |-> NULL, Description |-> "misc", Type |-> "Expense",
       Amount |-> 20] }

\* ------------------------------------------------------------ specifications
\* Accounts: two browser sessions registering and logging in, whole runs.
NextAuth ==
    \/ \E s \in Sessions, u \in Usernames, p \in Passwords :
          RegisterClick(s, u, p)
    \/ \E s \in Sessions, u \in Usernames, p \in Passwords :
          LoginClick(s, u, p)

SpecAuth == Init /\ [][NextAuth]_vars

\* The whole page: two browser sessions, whole runs.  Accounts are created
\* with one password; a login may give the other one and fail.
Next ==
    \/ \E s \in Sessions, u \in Usernames : RegisterClick(s, u, "pw1")
    \/ \E s \in Sessions, u \in Usernames, p \in Passwords :
          LoginClick(s, u, p)
    \/ \E s \in Sessions, df \in SeqUpTo(AuthRows, MaxBatch) : SaveClick(s, df, 0)
    \/ \E s \in Sessions : Rerun(s)

Spec == Init /\ [][Next]_vars

\* The same, with INSERTs of add_transactions that raise (the store fails,
\* or sqlite3 cannot bind a cell's value).
SaveRaises ==
    \E s \in Sessions, df \in SeqUpTo(AuthRows, MaxBatch), raise \in 1..MaxBatch :
        SaveClick(s, df, raise)

NextFault == Next \/ SaveRaises

SpecFault == Init /\ [][NextFault]_vars

\* One user's ledger over time: a single session, richer rows, the clock.
NextLedger ==
    \/ RegisterClick("s1", "alice", "pw1")
    \/ LoginClick("s1", "alice", "pw1")
    \/ \E df \in SeqUpTo(LedgerRows, MaxBatch) : SaveClick("s1", df, 0)
    \/ Rerun("s1")
    \/ Tick

SpecLedger == Init /\ [][NextLedger]_vars

\* Two sessions' threads on the shared cursor, one cursor call at a time.
NextConc ==
    \/ \E s \in Sessions, u \in Usernames, p \in Passwords :
          RegisterClick(s, u, p)
    \/ \E s \in Sessions, u \in Usernames, p \in Passwords :
          LoginExecute(s, u, p)
    \/ \E s \in Sessions : LoginFetchone(s)

SpecConc == Init /\ [][NextConc]_vars

\* ------------------------------------------------------------ claims
Usernames_of(rows) == {rows[i].username : i \in DOMAIN rows}

\* C1: login_user(u, p) returns a row exactly when the first successful
\* register_user for u was made with password p, and that row is the one the
\* registration created (same id, same username); a registered username with
\* another password and an unregistered username give None.  A Login run
\* shows the same: the row it got is the one some registration created.
C1_LoginIffRegistered ==
    /\ \A u \in Usernames, p \in Passwords :
          LET r == login_user(u, p)
          IN  /\ r # None <=> (firstReg[u] # None /\ firstReg[u][1].password = p)
              /\ r # None => /\ r[1].id = firstReg[u][1].id
                             /\ r[1].username = u
                             /\ r[1].password_hash = hash_password(p)
    /\ last.op = "login" /\ last.user # None =>
          \E u \in Usernames :
             /\ firstReg[u] # None
             /\ last.user[1].id = firstReg[u][1].id
             /\ last.user[1].username = u

\* C1's case: a Login run got a row while both usernames are registered, one
\* of them after a refused second registration of the other is possible.
C1_Witness ==
    /\ last.op = "login"
    /\ last.user # None
    /\ Len(users) = 2
    /\ \E u \in Usernames : firstReg[u] # None /\ firstReg[u][1].password = "pw2"

\* C2: a register_user call with a username already present returns False
\* whatever the password and leaves the users table as it was; no state has
\* two rows of one username; the row keeps its id and digest, and the
\* password first registered still authenticates.
C2_Unique(rows) ==
    \A i, j \in DOMAIN rows : rows[i].username = rows[j].username => i = j

C2_DuplicateRegisterRefused ==
    [][ /\ C2_Unique(users')
        /\ \A u \in Usernames :
              firstReg'[u] # None =>
                 /\ (login_user(u, firstReg[u][1].password))' # None
                 /\ (login_user(u, firstReg[u][1].password))'[1].id
                       = firstReg'[u][1].id
        /\ \A i \in DOMAIN users : i \in DOMAIN users' /\ users'[i] = users[i]
        /\ \A s \in Sessions, u \in Usernames, p \in Passwords :
              /\ last'.op = "register"
              /\ u \in Usernames_of(users)
              /\ RegisterClick(s, u, p)
              => /\ users' = users
                 /\ last'.msg = "Username already exists."
      ]_vars

\* C2's case: a registration was refused and the users table has a row.
C2_Witness ==
    /\ last.op = "register"
    /\ last.msg = "Username already exists."
    /\ Len(users) = 2

\* The data columns of stored rows, as the edit buffer named them.
AsSaved(rows) ==
    [i \in DOMAIN rows |->
        [Category |-> rows[i].category, Description |-> rows[i].description,
         Type |-> rows[i].type, Amount |-> rows[i].amount,
         Date |-> rows[i].date]]

\* The user a session is logged in as.
UserOf(s) == session[s].user_id[1]

\* C3: no cross-user visibility.  get_transactions(U) returns exactly the
\* rows saved by sessions logged in as U, in order, each with user_id U; the
\* page a session renders holds only its own user's rows; and a save by one
\* user leaves get_transactions(B) as it was for every other user B.
C3_NoCrossUserVisibility ==
    [][ /\ \A U \in UserIds :
              /\ AsSaved((get_transactions(U))') = ledger'[U]
              /\ \A r \in Range((get_transactions(U))') : r.user_id = U
        /\ last'.download # None =>
              \A line \in Range(last'.download[1].lines) :
                 line[2] = session'[last'.s].user_id[1]
        /\ last'.op = "save" =>
              \A B \in UserIds \ {UserOf(last'.s)} :
                 (get_transactions(B))' = get_transactions(B)
      ]_vars

\* C3's case: two users each have rows, and one of them has just saved.
C3_Witness ==
    /\ last.op = "save"
    /\ last.page = "summary"
    /\ \A U \in UserIds : ledger[U] # << >>
    /\ \E s \in Sessions : session[s].logged_in /\ UserOf(s) # UserOf(last.s)

\* C4: add_transactions is atomic per batch: no row inserted by a call that
\* raised part-way is ever among the committed rows, whatever runs later on
\* the shared connection.
C4_FailedBatchNeverDurable ==
    \A i \in failedIds : i > committed

\* C5: login_user never returns a row whose username and digest differ from
\* the ones its call supplied, and never returns None for credentials that
\* were registered when the call began, however the cursor calls of two
\* sessions' threads interleave.
C5_LoginAsIfSerial ==
    (last.op = "login" /\ pc[last.s] = "idle" /\ call[last.s] # None) =>
       LET a == call[last.s][1]
       IN  /\ last.user # None =>
                /\ last.user[1].username = a.username
                /\ last.user[1].password_hash = hash_password(a.password)
           /\ a.registered => last.user # None

RECURSIVE SumValues(_)
SumValues(f) ==
    IF DOMAIN f = {} THEN 0
    ELSE LET k == CHOOSE x \in DOMAIN f : TRUE
         IN  f[k] + SumValues([x \in DOMAIN f \ {k} |-> f[x]])

\* C7: on a rendered summary, expenses-by-category holds only Expense rows'
\* amounts, its values add up to total_expense, and balance is total_income
\* minus total_expense, the totals being the sums over the user's Income and
\* Expense rows.
C7_CategoriesSumToExpense ==
    last.page = "summary" =>
       LET df == get_transactions(UserOf(last.s))
       IN  /\ last.income = SumAmount(OfType(df, "Income"))
           /\ last.expense = SumAmount(OfType(df, "Expense"))
           /\ last.balance = last.income - last.expense
           /\ \A k \in DOMAIN last.grouped :
                 last.grouped[k] =
                    SumAmount(SelectSeq(df, LAMBDA r :
                                 r.type = "Expense" /\ r.category = k))
           /\ SumValues(last.grouped) = last.expense

\* C8: the expense trend has exactly one key per calendar day with an
\* Expense, in ascending order, and its value is the sum of that day's
\* Expense amounts, also when they were saved in different minutes.
C8_OneKeyPerCalendarDay ==
    last.page = "summary" =>
       LET df == OfType(get_transactions(UserOf(last.s)), "Expense")
           trend == last.daily_expense
       IN  /\ {trend[i].date.day : i \in DOMAIN trend}
                 = {r.date.day : r \in Range(df)}
           /\ \A i, j \in DOMAIN trend :
                 i < j => trend[i].date.day < trend[j].date.day
           /\ \A i \in DOMAIN trend :
                 trend[i].amount =
                    SumAmount(SelectSeq(df, LAMBDA r :
                                 r.date.day = trend[i].date.day))

\* The last run was a whole run of a session that is logged in.
LoggedInRun ==
    /\ last.s \in Sessions
    /\ session[last.s].logged_in
    /\ last.msg # "exception"

\* C9 as stated: whenever a logged-in session's page is rendered, the export
\* is there, with the header date,category,description,type,amount and one
\* line per transaction of the user (none for a user without transactions).
C9_ExportAlwaysOffered ==
    LoggedInRun =>
       /\ last.download # None
       /\ last.download[1].header = ShownColumns
       /\ Len(last.download[1].lines)
             = Len(get_transactions(UserOf(last.s)))

\* C9 as amended: the export is offered exactly when the user has at least
\* one transaction; its header names all seven columns of the table, and one
\* line per transaction of that user follows, in order, starting with the
\* row's id and user_id.  With no transactions the page shows the "No
\* transactions yet" note and no export.
C9_ExportWhenNonEmpty ==
    LoggedInRun =>
       LET df == get_transactions(UserOf(last.s))
       IN  IF df = << >>
           THEN last.download = None /\ last.page = "info"
           ELSE /\ last.page = "summary"
                /\ last.download # None
                /\ last.download[1].header =
                      <<"id", "user_id", "date", "category", "description",
                        "type", "amount">>
                /\ Len(last.download[1].lines) = Len(df)
                /\ \A i \in DOMAIN df :
                      last.download[1].lines[i] =
                         <<df[i].id, df[i].user_id, df[i].date, df[i].category,
                           df[i].description, df[i].type, df[i].amount>>

\* C9's case: an export of two rows is on the page.
C9_Witness ==
    /\ LoggedInRun
    /\ last.download # None
    /\ Len(last.download[1].lines) = 2

\* C10: a logged-in session's user_id is the id of a users row; a successful
\* login sets it to the id login_user returned, and no other run changes a
\* session's state (a failed login and a register attempt leave logged_in
\* and user_id alone); logged_in never becomes false again; the rows a save
\* adds carry the session's user_id, so every stored row's user exists.
C10_SessionInvariant ==
    [][ /\ \A s \in Sessions :
              /\ session'[s].logged_in =>
                    /\ session'[s].user_id # None
                    /\ \E i \in DOMAIN users' :
                          users'[i].id = session'[s].user_id[1]
              /\ session[s].logged_in => session'[s].logged_in
              /\ s # last'.s => session'[s] = session[s]
        /\ IF last'.op = "login" /\ last'.user # None
           THEN session'[last'.s] =
                   [logged_in |-> TRUE, user_id |-> Some(last'.user[1].id)]
           ELSE session' = session
        /\ \A i \in DOMAIN transactions' \ DOMAIN transactions :
              /\ last'.op = "save"
              /\ transactions'[i].user_id = UserOf(last'.s)
        /\ \A r \in Range(transactions') :
              \E i \in DOMAIN users' : users'[i].id = r.user_id
      ]_vars

\* C10's case: a session that is logged in and has saved a row has just
\* failed a login, while the other user exists too.
C10_Witness ==
    /\ last.op = "login"
    /\ last.user = None
    /\ session[last.s].logged_in
    /\ Len(users) = 2
    /\ \E r \in Range(transactions) : r.user_id = UserOf(last.s)

====
